---- MODULE Spec2Model ----
(***************************************************************************)
(* Model of synology_api/core_certificate.py: the Certificate wrapper of   *)
(* the DSM certificate API.  The client is one synchronous caller; the     *)
(* remote registry (the NAS) is the environment.  A call that makes one    *)
(* round trip is one action; set_certificate_for_service and upload_cert   *)
(* are split at the point where their POST is in flight.                   *)
(***************************************************************************)
EXTENDS Integers, Sequences, FiniteSets, TLC

\* Largest number of certificates the registry holds.
MaxCerts == 2

\* Identifiers the registry hands out, and the identifiers a caller may pass.
RegistryIds == {"111", "222", "333"}
RequestIds == RegistryIds \cup {""}
ServiceNames == {"DSM Desktop Service", "Other Service"}
\* Values of session._version.
DsmVersions == {6, 7, 8}

\* One entry of list_cert()['data']['certificates']: its id and the
\* display_name of each of its services.
CertRecords == [id : RegistryIds, services : SUBSET ServiceNames]

Registries ==
    {r \in UNION {[1..n -> CertRecords] : n \in 0..MaxCerts} :
        \A i, j \in DOMAIN r : i # j => r[i].id # r[j].id}

IdsOf(reg) == {reg[i].id : i \in DOMAIN reg}

VARIABLES
    registry,      \* remote: the certificates, in registry order
    default_id,    \* remote: id of the default certificate, "" when none
    version,       \* self.session._version
    pc,            \* "idle", "bind_post" or "upload_post"
    op,            \* the operation running or last completed
    cert_id,       \* cert_id argument of the current call
    service_name,  \* service_name argument of the current call
    read_ok,       \* whether list_cert() returned data.certificates
    certs,         \* the snapshot read by set_certificate_for_service
    old_certid,    \* local of set_certificate_for_service
    reqs,          \* requests the current call has sent, in order
    outcome,       \* what the call returned or raised
    handles,       \* file handles the upload call holds open
    opened,        \* file handles the upload call has opened so far
    prev,          \* history: the preceding call, when it was a bind
    interfered     \* history: another client changed the registry since

vars == <<registry, default_id, version, pc, op, cert_id, service_name,
          read_ok, certs, old_certid, reqs, outcome, handles, opened, prev,
          interfered>>

NoOutcome == [kind |-> "none", status |-> 0, body |-> ""]
Return(status, body) == [kind |-> "return", status |-> status, body |-> body]
Raise(exc) == [kind |-> "raise", status |-> 0, body |-> exc]

NoPrev == [bind |-> FALSE]

----------------------------------------------------------------------------
\* _base_certificate_methods

available_method == {"list", "set", "delete"}

Quote(s) == "\"" \o s \o "\""

RECURSIVE JsonItems(_)
JsonItems(ids) ==
    IF Len(ids) = 0 THEN ""
    ELSE IF Len(ids) = 1 THEN Quote(ids[1])
    ELSE Quote(ids[1]) \o ", " \o JsonItems(Tail(ids))

\* json.dumps of a list of strings (default separators).
JsonDumpsIds(ids) == "[" \o JsonItems(ids) \o "]"

Merge(f, g) ==
    [k \in DOMAIN f \cup DOMAIN g |-> IF k \in DOMAIN g THEN g[k] ELSE f[k]]

\* req_param as built for a method and its arguments.
ReqParam(method, cid, ids) ==
    LET base == [version |-> "1", method |-> method]
    IN  IF method = "set" /\ cid # ""
        THEN Merge(base, [as_default |-> "true", desc |-> "\"\"", id |-> Quote(cid)])
        ELSE IF method = "delete" /\ Len(ids) > 0
        THEN Merge(base, [ids |-> JsonDumpsIds(ids)])
        ELSE base

----------------------------------------------------------------------------
\* The remote registry: what the NAS does with a request and what it answers.

\* Sequences of ids a delete request can carry.
IdSeqs == UNION {[1..n -> RegistryIds] : n \in 0..2}

DecodeIds(str) == {s \in IdSeqs : JsonDumpsIds(s) = str}

\* Whether the registry can serve the CRT request with parameters p.
CanServe(reg, p) ==
    CASE p.method = "list" -> TRUE
      [] p.method = "set" ->
            "id" \in DOMAIN p /\ \E c \in IdsOf(reg) : Quote(c) = p.id
      [] p.method = "delete" -> "ids" \in DOMAIN p
      [] OTHER -> FALSE

RegistryAfterCrt(reg, p) ==
    IF p.method = "delete"
    THEN LET gone == UNION {{s[i] : i \in DOMAIN s} : s \in DecodeIds(p.ids)}
         IN  SelectSeq(reg, LAMBDA c : c.id \notin gone)
    ELSE reg

DefaultAfterCrt(reg, dflt, p) ==
    CASE p.method = "set" -> CHOOSE c \in IdsOf(reg) : Quote(c) = p.id
      [] p.method = "delete" ->
            IF dflt \in IdsOf(RegistryAfterCrt(reg, p)) THEN dflt ELSE ""
      [] OTHER -> dflt

\* A binding write moves the service from certificate old_id to certificate id.
ApplyBinding(reg, setting) ==
    LET name == setting.service.display_name
    IN  [i \in DOMAIN reg |->
            IF reg[i].id = setting.id
            THEN [reg[i] EXCEPT !.services = @ \cup {name}]
            ELSE IF reg[i].id = setting.old_id
            THEN [reg[i] EXCEPT !.services = @ \ {name}]
            ELSE reg[i]]

\* Answers to a POST: an HTTP status with a decoded body, or no answer at all.
PostResponses ==
    {[raised |-> FALSE, status |-> 200, success |-> TRUE],
     [raised |-> FALSE, status |-> 200, success |-> FALSE],
     [raised |-> FALSE, status |-> 500, success |-> FALSE],
     [raised |-> TRUE, status |-> 0, success |-> FALSE]}

Accepted(r) == ~r.raised /\ r.status = 200 /\ r.success

PostOutcome(r) ==
    IF r.raised THEN Raise("ConnectionError")
    ELSE Return(r.status, IF r.success THEN "success:true" ELSE "success:false")

\* Answers to the list request: the certificates, or a body without data.
ListResponses(reg) ==
    {[has_data |-> TRUE, certificates |-> reg],
     [has_data |-> FALSE, certificates |-> <<>>]}

----------------------------------------------------------------------------
\* History kept for the properties: the preceding call, when the current
\* call repeats it (a bind with the same arguments, nothing in between).

Writes(rs) == SelectSeq(rs, LAMBDA q : q.kind = "post")

Binders(cs, sname) == {cs[i].id : i \in {j \in DOMAIN cs : sname \in cs[j].services}}

BindSummary ==
    [bind |-> TRUE, cert_id |-> cert_id, service_name |-> service_name,
     read_ok |-> read_ok, binders |-> Binders(certs, service_name),
     writes |-> Writes(reqs), outcome |-> outcome]

\* Entry of every public method: the locals of the call are fresh.
StartCall(name, cid, sname) ==
    /\ pc = "idle"
    /\ op' = name
    /\ cert_id' = cid
    /\ service_name' = sname
    /\ prev' = IF /\ name = "set_certificate_for_service" /\ op = name
                  /\ cid = cert_id /\ sname = service_name /\ ~interfered
               THEN BindSummary ELSE NoPrev
    /\ interfered' = FALSE

----------------------------------------------------------------------------
\* list_cert, set_default_cert, delete_certificate

base_certificate_methods(method, cid, ids) ==
    IF method \notin available_method
    THEN /\ reqs' = <<>>
         /\ outcome' = Return(0, "Method " \o method \o " no supported.")
         /\ UNCHANGED <<registry, default_id>>
    ELSE LET p == ReqParam(method, cid, ids)
         IN  /\ reqs' = <<[kind |-> "dispatch", api |-> "SYNO.Core.Certificate.CRT",
                           param |-> p]>>
             /\ \E ok \in BOOLEAN :
                  IF ok /\ CanServe(registry, p)
                  THEN /\ registry' = RegistryAfterCrt(registry, p)
                       /\ default_id' = DefaultAfterCrt(registry, default_id, p)
                       /\ outcome' = Return(0, "success:true")
                  ELSE /\ outcome' = Return(0, "success:false")
                       /\ UNCHANGED <<registry, default_id>>

NoLocals ==
    /\ read_ok' = FALSE
    /\ certs' = <<>>
    /\ old_certid' = ""
    /\ handles' = {}
    /\ opened' = {}

list_cert ==
    /\ StartCall("list_cert", "", "")
    /\ base_certificate_methods("list", "", <<>>)
    /\ NoLocals
    /\ UNCHANGED <<version, pc>>

set_default_cert(cid) ==
    /\ StartCall("set_default_cert", cid, "")
    /\ base_certificate_methods("set", cid, <<>>)
    /\ NoLocals
    /\ UNCHANGED <<version, pc>>

\* ids is a str or a list of str; a str becomes a one-element list.
DeleteInputs ==
    {[is_str |-> TRUE, str |-> "111", list |-> <<>>],
     [is_str |-> FALSE, str |-> "", list |-> <<"222", "111">>],
     [is_str |-> FALSE, str |-> "", list |-> <<>>]}

NormaliseIds(arg) == IF arg.is_str THEN <<arg.str>> ELSE arg.list

delete_certificate(arg) ==
    /\ StartCall("delete_certificate", "", "")
    /\ base_certificate_methods("delete", "", NormaliseIds(arg))
    /\ NoLocals
    /\ UNCHANGED <<version, pc>>

\* A direct call of _base_certificate_methods with a method it does not know.
unsupported_method ==
    /\ StartCall("_base_certificate_methods", "", "")
    /\ base_certificate_methods("export", "", <<>>)
    /\ NoLocals
    /\ UNCHANGED <<version, pc>>

----------------------------------------------------------------------------
\* set_certificate_for_service

\* Variant: .get('data', {}).get('certificates', []) instead of subscripts.
DataCertificatesDefault(resp) ==
    [raised |-> FALSE, value |-> resp.certificates]

\* list_cert()['data']['certificates']: a body without data raises KeyError.
DataCertificates(resp) ==
    [raised |-> ~resp.has_data, value |-> resp.certificates]

\* Variant: the display name is not compared.
ServesAnything(cert, sname) == cert.services # {}

\* Whether one of the certificate's services has the display name.
ServesName(cert, sname) == \E service \in cert.services : service = sname

\* The two loops over certs and cert['services']: the break leaves only the
\* inner loop, so every certificate of the snapshot is visited.
RECURSIVE ScanFrom(_, _, _, _)
ScanFrom(cs, i, sname, old) ==
    IF i > Len(cs) THEN old
    ELSE ScanFrom(cs, i + 1, sname,
                  IF ServesName(cs[i], sname) THEN cs[i].id ELSE old)

ScanOldCertId(cs, sname) == ScanFrom(cs, 1, sname, "")

\* The guard "if old_certid == cert_id".
AlreadySet(old, cid) == old = cid

servicedatadict ==
    [n \in {"DSM Desktop Service"} |->
        [display_name |-> "DSM Desktop Service",
         display_name_i18n |-> "common:web_desktop",
         isPkg |-> FALSE,
         owner |-> "root",
         service |-> "default",
         subscriber |-> "system"]]

servicedatadictdsm7 ==
    [n \in {"DSM Desktop Service"} |->
        [multiple_cert |-> TRUE, user_setable |-> TRUE]]

\* Variant: an unknown name falls back to the one service of the table.
LookupServiceDefault(sname) ==
    [raised |-> FALSE, base |-> servicedatadict["DSM Desktop Service"],
     dsm7 |-> servicedatadictdsm7["DSM Desktop Service"]]

\* The subscripts servicedatadict[service_name] and
\* servicedatadictdsm7[service_name]: KeyError for a name that is no key.
LookupService(sname) ==
    IF sname \in DOMAIN servicedatadict
    THEN [raised |-> FALSE, base |-> servicedatadict[sname],
          dsm7 |-> servicedatadictdsm7[sname]]
    ELSE [raised |-> TRUE, base |-> <<>>, dsm7 |-> <<>>]

Dsm7 == 7

\* The fragment merged into the descriptor: only for session._version == 7.
Dsm7Fragment(found, v) == IF v = Dsm7 THEN found.dsm7 ELSE <<>>

\* Variant: old_id and id exchanged.
SettingsSwapped(found, v, old, cid) ==
    <<[service |-> Merge(found.base, Dsm7Fragment(found, v)),
       old_id |-> cid,
       id |-> old]>>

\* The list handed to json.dumps for the "settings" form field.
Settings(found, v, old, cid) ==
    <<[service |-> Merge(found.base, Dsm7Fragment(found, v)),
       old_id |-> old,
       id |-> cid]>>

ListRequest ==
    [kind |-> "dispatch", api |-> "SYNO.Core.Certificate.CRT",
     param |-> ReqParam("list", "", <<>>)]

BindRequest(found, v, old, cid) ==
    [kind |-> "post", api |-> "SYNO.Core.Certificate.Service",
     data |-> [settings |-> Settings(found, v, old, cid),
               api |-> "SYNO.Core.Certificate.Service",
               method |-> "set"]]

AlreadySetMessage == "Certificate already set, aborting"

set_certificate_for_service(cid, sname) ==
    /\ StartCall("set_certificate_for_service", cid, sname)
    /\ handles' = {}
    /\ opened' = {}
    /\ UNCHANGED <<registry, default_id, version>>
    /\ \E resp \in ListResponses(registry) :
         LET got == DataCertificates(resp)
             old == ScanOldCertId(got.value, sname)
             found == LookupService(sname)
         IN  IF got.raised
             THEN /\ read_ok' = resp.has_data
                  /\ certs' = <<>>
                  /\ old_certid' = ""
                  /\ reqs' = <<ListRequest>>
                  /\ outcome' = Raise("KeyError")
                  /\ pc' = "idle"
             ELSE /\ read_ok' = resp.has_data
                  /\ certs' = got.value
                  /\ old_certid' = old
                  /\ IF AlreadySet(old, cid)
                     THEN /\ reqs' = <<ListRequest>>
                          /\ outcome' = Return(200, AlreadySetMessage)
                          /\ pc' = "idle"
                     ELSE IF found.raised
                     THEN /\ reqs' = <<ListRequest>>
                          /\ outcome' = Raise("KeyError")
                          /\ pc' = "idle"
                     ELSE /\ reqs' = <<ListRequest,
                                       BindRequest(found, version, old, cid)>>
                          /\ outcome' = NoOutcome
                          /\ pc' = "bind_post"

\* session.post answers; the registry has applied the write if it accepted it.
bind_post_response ==
    /\ pc = "bind_post"
    /\ \E r \in PostResponses :
         LET setting == reqs[Len(reqs)].data.settings[1]
         IN  /\ Accepted(r) => setting.id \in IdsOf(registry)
             /\ registry' = IF Accepted(r) THEN ApplyBinding(registry, setting)
                            ELSE registry
             /\ outcome' = PostOutcome(r)
    /\ pc' = "idle"
    /\ UNCHANGED <<default_id, version, op, cert_id, service_name, read_ok,
                   certs, old_certid, reqs, handles, opened, prev, interfered>>

----------------------------------------------------------------------------
\* upload_cert

\* The files of the call, in the order the with statements open them.
UploadParts(ca) ==
    IF ca THEN <<"key", "cert", "inter_cert">> ELSE <<"key", "cert">>

\* The handles opened before the open() that fails ("none": all succeed).
OpenedOf(parts, fail_at) ==
    {parts[i] : i \in {k \in DOMAIN parts :
                          \A j \in 1..k : parts[j] # fail_at}}

\* Variant: only the innermost with block closes its handle.
ExitWithInnerOnly(held, scope) == held \ {"inter_cert"}

\* Leaving the with blocks closes the handles they opened.
ExitWith(held, scope) == held \ scope

upload_cert(ca, set_as_default, cid, fail_at) ==
    /\ StartCall("upload_cert", cid, "")
    /\ read_ok' = FALSE
    /\ certs' = <<>>
    /\ old_certid' = ""
    /\ UNCHANGED <<registry, default_id, version>>
    /\ LET parts == UploadParts(ca)
           all == {parts[i] : i \in DOMAIN parts}
           got == OpenedOf(parts, fail_at)
           data_payload == [id |-> cid, desc |-> "",
                            as_default |-> IF set_as_default THEN "true" ELSE ""]
       IN  /\ opened' = got
           /\ IF got # all
              THEN /\ handles' = ExitWith(got, all)
                   /\ reqs' = <<>>
                   /\ outcome' = Raise("IOError")
                   /\ pc' = "idle"
              ELSE /\ handles' = got
                   /\ reqs' = <<[kind |-> "post", api |-> "SYNO.Core.Certificate",
                                 files |-> got, data |-> data_payload]>>
                   /\ outcome' = NoOutcome
                   /\ pc' = "upload_post"

\* The id the import gives the certificate, "" when the registry is full.
ImportTarget(reg, data) ==
    IF data.id \in IdsOf(reg) THEN data.id
    ELSE IF data.id = "" /\ Len(reg) < MaxCerts /\ RegistryIds \ IdsOf(reg) # {}
    THEN CHOOSE c \in RegistryIds \ IdsOf(reg) : TRUE
    ELSE ""

upload_post_response ==
    /\ pc = "upload_post"
    /\ \E r \in PostResponses :
         LET data == reqs[1].data
             target == ImportTarget(registry, data)
         IN  /\ Accepted(r) => target # ""
             /\ registry' = IF Accepted(r) /\ target \notin IdsOf(registry)
                            THEN Append(registry, [id |-> target, services |-> {}])
                            ELSE registry
             /\ default_id' = IF Accepted(r) /\ data.as_default = "true"
                              THEN target ELSE default_id
             /\ outcome' = PostOutcome(r)
    /\ handles' = ExitWith(handles, {"key", "cert", "inter_cert"})
    /\ pc' = "idle"
    /\ UNCHANGED <<version, op, cert_id, service_name, read_ok, certs,
                   old_certid, reqs, opened, prev, interfered>>

----------------------------------------------------------------------------
\* Another client of the same NAS moves a service binding.  Between two calls
\* of this client that leaves a registry no call of this client has seen yet;
\* while the binding write is in flight it makes the snapshot stale (once).

Toggled(reg, i, s) ==
    [reg EXCEPT ![i].services = IF s \in @ THEN @ \ {s} ELSE @ \cup {s}]

other_client ==
    \E i \in DOMAIN registry, s \in ServiceNames :
       /\ registry' = Toggled(registry, i, s)
       /\ IF pc = "idle"
          THEN /\ op' = "none"
               /\ cert_id' = ""
               /\ service_name' = ""
               /\ read_ok' = FALSE
               /\ certs' = <<>>
               /\ old_certid' = ""
               /\ reqs' = <<>>
               /\ outcome' = NoOutcome
               /\ opened' = {}
               /\ prev' = NoPrev
               /\ interfered' = FALSE
               /\ UNCHANGED <<default_id, version, pc, handles>>
          ELSE /\ pc = "bind_post"
               /\ ~interfered
               /\ interfered' = TRUE
               /\ UNCHANGED <<default_id, version, pc, op, cert_id,
                              service_name, read_ok, certs, old_certid, reqs,
                              outcome, handles, opened, prev>>

----------------------------------------------------------------------------

Init ==
    /\ registry \in Registries
    /\ default_id = IF Len(registry) = 0 THEN "" ELSE registry[1].id
    /\ version \in DsmVersions
    /\ pc = "idle"
    /\ op = "none"
    /\ cert_id = ""
    /\ service_name = ""
    /\ read_ok = FALSE
    /\ certs = <<>>
    /\ old_certid = ""
    /\ reqs = <<>>
    /\ outcome = NoOutcome
    /\ handles = {}
    /\ opened = {}
    /\ prev = NoPrev
    /\ interfered = FALSE

\* The registry accessor: list, set default, delete.
NextCrt ==
    \/ list_cert
    \/ \E cid \in RequestIds : set_default_cert(cid)
    \/ \E arg \in DeleteInputs : delete_certificate(arg)
    \/ unsupported_method

\* The transfer operations.
NextUpload ==
    \/ \E ca \in BOOLEAN, dflt \in BOOLEAN, cid \in {"", "111"},
          fail_at \in {"none", "key", "cert", "inter_cert"} :
          upload_cert(ca, dflt, cid, fail_at)
    \/ upload_post_response

\* The service-binding coordinator, with the registry shared with others.
NextBind ==
    \/ \E cid \in RequestIds, sname \in ServiceNames :
          set_certificate_for_service(cid, sname)
    \/ bind_post_response
    \/ other_client

Next == NextCrt \/ NextUpload \/ NextBind

Spec == Init /\ [][Next]_vars

SpecCrt == Init /\ [][NextCrt]_vars

SpecUpload == Init /\ [][NextUpload]_vars

SpecBind == Init /\ [][NextBind]_vars

----------------------------------------------------------------------------
\* Properties of set_certificate_for_service

BindCall == op = "set_certificate_for_service"

AlreadyBound ==
    BindCall /\ pc = "idle" /\ outcome = Return(200, AlreadySetMessage)

KeyErrorRaised == BindCall /\ pc = "idle" /\ outcome = Raise("KeyError")

BindWrites == Writes(reqs)

SettingOf(write) == write.data.settings[1]

KnownService(sname) == sname \in {"DSM Desktop Service"}

\* The binding a snapshot shows for a service: the first certificate, in
\* registry order, that lists it; "" when none does.
FirstMatch(cs, sname) ==
    LET hits == {i \in DOMAIN cs : sname \in cs[i].services}
    IN  IF hits = {} THEN ""
        ELSE cs[CHOOSE i \in hits : \A j \in hits : i <= j].id

\* The call made exactly one write, after the list read, whose single
\* settings element carries the two ids.
OneWrite(old, cid) ==
    /\ Len(reqs) = 2
    /\ reqs[1] = ListRequest
    /\ reqs[2].kind = "post"
    /\ Len(reqs[2].data.settings) = 1
    /\ SettingOf(reqs[2]).old_id = old
    /\ SettingOf(reqs[2]).id = cid

\* C1: whenever some certificate of the snapshot with the requested id lists
\* the service, the call sends no write, returns "already set" with status
\* 200, and leaves the registry as the snapshot showed it.
C1_AnyBinderIsAlreadyBound ==
    (BindCall /\ read_ok /\ cert_id \in Binders(certs, service_name))
        => (AlreadyBound /\ BindWrites = <<>> /\ registry = certs)

\* C2: whenever the requested id differs from the id bound to a supported
\* service in the snapshot, the call makes exactly one write, after the list
\* read, with old_id the bound id ("" when none) and id the requested id.
C2_OneWriteWithOldAndNewId ==
    (BindCall /\ read_ok /\ KnownService(service_name)
        /\ cert_id # FirstMatch(certs, service_name))
        => OneWrite(FirstMatch(certs, service_name), cert_id)

\* C3: the service descriptor of a bind write has multiple_cert and
\* user_setable, both true, exactly when the appliance version is 7 or more.
C3_Dsm7AttributesFromVersion7Up ==
    \A k \in DOMAIN reqs :
        (BindCall /\ reqs[k].kind = "post") =>
            LET d == SettingOf(reqs[k]).service
            IN  /\ ("multiple_cert" \in DOMAIN d) <=> (version >= 7)
                /\ ("user_setable" \in DOMAIN d) <=> (version >= 7)
                /\ "multiple_cert" \in DOMAIN d => d.multiple_cert = TRUE
                /\ "user_setable" \in DOMAIN d => d.user_setable = TRUE

\* The scenario of C4: this call repeats the preceding one, which found the
\* supported service bound to exactly one certificate other than the
\* requested one; both reads returned a snapshot and no other client wrote.
RebindScenario ==
    /\ BindCall
    /\ prev.bind
    /\ ~interfered
    /\ prev.read_ok
    /\ KnownService(service_name)
    /\ Cardinality(prev.binders) = 1
    /\ cert_id \notin prev.binders

\* C4: with the service bound to A, bind(B) makes one write with old_id A and
\* id B; when the registry accepts it, the bind(B) that follows at once makes
\* no write and returns "already set": one write in total.
C4_RebindIsNoOp ==
    RebindScenario =>
        /\ Len(prev.writes) = 1
        /\ Len(prev.writes[1].data.settings) = 1
        /\ {SettingOf(prev.writes[1]).old_id} = prev.binders
        /\ SettingOf(prev.writes[1]).id = cert_id
        /\ (prev.outcome = Return(200, "success:true") /\ read_ok) =>
              /\ AlreadyBound
              /\ BindWrites = <<>>
              /\ Len(prev.writes) + Len(BindWrites) = 1

C4_Witness ==
    /\ RebindScenario
    /\ prev.outcome = Return(200, "success:true")
    /\ read_ok
    /\ AlreadyBound
    /\ SettingOf(prev.writes[1]).old_id # ""

\* C5: for a service name that is no key of the table the call always ends
\* in a failure and sends no write; it never returns success or "already set".
C5_UnknownServiceAlwaysFails ==
    (BindCall /\ ~KnownService(service_name))
        => (pc = "idle" /\ outcome.kind = "raise" /\ BindWrites = <<>>)

\* C5 as amended: for a service name that is no key of the table the call
\* sends no write and never returns a write's result; it returns "already set"
\* only when the requested id is that of a certificate listing the name, or is
\* empty with no certificate listing it, and otherwise raises KeyError.
C5_UnknownServiceNeverWrites ==
    (BindCall /\ ~KnownService(service_name)) =>
        /\ pc = "idle"
        /\ BindWrites = <<>>
        /\ registry = (IF read_ok THEN certs ELSE registry)
        /\ \/ KeyErrorRaised
           \/ /\ AlreadyBound
              /\ read_ok
              /\ \/ cert_id \in Binders(certs, service_name)
                 \/ cert_id = "" /\ Binders(certs, service_name) = {}

C5_Witness ==
    /\ BindCall
    /\ ~KnownService(service_name)
    /\ read_ok
    /\ KeyErrorRaised
    /\ Binders(certs, service_name) # {}

\* C6: a call whose list read returned no certificate data ends in a failure
\* and sends no binding write.
C6_FailedReadNeverWrites ==
    (BindCall /\ ~read_ok) =>
        /\ pc = "idle"
        /\ outcome.kind = "raise"
        /\ reqs = <<ListRequest>>

C6_Witness ==
    /\ BindCall
    /\ ~read_ok
    /\ KeyErrorRaised
    /\ KnownService(service_name)
    /\ cert_id \in RegistryIds
    /\ Len(registry) > 0

\* C9: when several certificates of the snapshot list the service, the scan
\* settles on the first of them in registry order: that id decides the
\* "already set" guard and is the old_id of the write.
C9_FirstMatchIsCurrentBinding ==
    (BindCall /\ read_ok /\ Cardinality(Binders(certs, service_name)) > 1) =>
        /\ old_certid = FirstMatch(certs, service_name)
        /\ AlreadyBound <=> (cert_id = FirstMatch(certs, service_name))
        /\ \A k \in DOMAIN BindWrites :
              SettingOf(BindWrites[k]).old_id = FirstMatch(certs, service_name)

\* C10: "already set" is returned only if a certificate with the requested id
\* lists the service; when no certificate lists it the call, for every
\* requested id, does not return "already set" and writes with old_id "".
C10_AlreadyBoundOnlyForBinder ==
    (BindCall /\ read_ok) =>
        /\ AlreadyBound => cert_id \in Binders(certs, service_name)
        /\ Binders(certs, service_name) = {} =>
              (~AlreadyBound /\ OneWrite("", cert_id))

\* C10 as amended: "already set" is returned only if a certificate with the
\* requested id lists the service, or the requested id is empty and no
\* certificate lists it; when no certificate lists the service, a non-empty
\* requested id is never answered "already set": the call writes with old_id ""
\* for a service of the table and raises KeyError for any other, and an empty
\* requested id is answered "already set" without a write.
C10_AlreadyBoundOnlyForBinderOrEmpty ==
    (BindCall /\ read_ok) =>
        /\ AlreadyBound =>
              \/ cert_id \in Binders(certs, service_name)
              \/ cert_id = "" /\ Binders(certs, service_name) = {}
        /\ (Binders(certs, service_name) = {} /\ cert_id # "") =>
              /\ ~AlreadyBound
              /\ KnownService(service_name) => OneWrite("", cert_id)
              /\ ~KnownService(service_name) => (KeyErrorRaised /\ BindWrites = <<>>)
        /\ (Binders(certs, service_name) = {} /\ cert_id = "") =>
              (AlreadyBound /\ BindWrites = <<>>)

C10_Witness ==
    /\ BindCall
    /\ read_ok
    /\ Binders(certs, service_name) = {}
    /\ Len(certs) > 0
    /\ cert_id # ""
    /\ pc = "bind_post"
    /\ OneWrite("", cert_id)

----------------------------------------------------------------------------
\* Properties of set_default_cert and upload_cert

\* C7: set_default_cert with an empty id fails with InvalidArgument and sends
\* nothing; a request with method set is sent only for a non-empty id, and
\* then carries as_default "true" and the id between quote characters.
C7_EmptyIdDispatchesNothing ==
    op = "set_default_cert" =>
        /\ cert_id = "" => (reqs = <<>> /\ outcome.kind = "raise")
        /\ \A k \in DOMAIN reqs :
              reqs[k].param.method = "set" =>
                 /\ cert_id # ""
                 /\ "as_default" \in DOMAIN reqs[k].param
                 /\ reqs[k].param.as_default = "true"
                 /\ reqs[k].param.id = Quote(cert_id)

\* C8: when upload_cert has returned or raised, every handle it opened is
\* closed; while its post is in flight, every file of the multipart request,
\* which are all the files of the call, is open.
C8_HandlesReleasedOnEveryExit ==
    /\ pc = "idle" => handles = {}
    /\ (op = "upload_cert" /\ pc = "idle") => outcome.kind \in {"return", "raise"}
    /\ pc = "upload_post" =>
          /\ reqs[1].files = handles
          /\ handles = opened
          /\ {"key", "cert"} \subseteq handles

C8_Witness ==
    /\ op = "upload_cert"
    /\ pc = "idle"
    /\ outcome = Raise("IOError")
    /\ opened = {"key", "cert"}
    /\ handles = {}

====
